---- MODULE Spec2Model ----
(***************************************************************************)
(* AG-UI client of the Home Assistant integration: one AGUIClient whose    *)
(* run() sends a RunAgentInput, drains the event stream of the remote      *)
(* agent through _process_event and dispatches frontend tools through      *)
(* execute_tool.                                                           *)
(*                                                                         *)
(* Strings that the code joins or parses are sequences of lexical units,   *)
(* since the joining and the parsing are what the model has to compute.    *)
(***************************************************************************)
EXTENDS Integers, Sequences, FiniteSets, TLC

VARIABLES
    pc,                \* position of the run() coroutine
    messages,          \* the caller's list passed to run() (never written by run)
    pending,           \* self._pending_tool_calls: tool_call_id -> PendingToolCall
    response_chunks,   \* run(): response_chunks
    tool_results,      \* run(): tool_results
    current_messages,  \* run(): current_messages
    requests,          \* the message lists of the requests posted by this run
    event,             \* the event _fetch_remote_events yielded last
    inflight,          \* the execute_tool call being awaited, if any
    dispatched,        \* the calls the tool backend received in this run
    textSeen,          \* deltas of the text events the stream delivered in this run
    toolsInPass,       \* tool calls executed in the current pass
    nEvents,           \* events the stream delivered in this pass
    result,            \* the AGUIClientResult run() returned
    raised,            \* the exception that left run(), "" if none
    response,          \* what the transport did in this pass: status, failure
    answered,          \* what the tool backend answered to each call it received
    argText,           \* per started call: the argument text the stream sent for it
    callText,          \* per completed call: the argument text the stream sent for it
    endSeen,           \* ids of the tool-call-end events of started calls, as streamed
    leftBehind,        \* ids that were pending on the client when this run began
    restarted,         \* ids started again in this run while pending with fragments
    bearer_token,      \* the bearer_token argument given to AGUIClient(...)
    headers,           \* headers of the request posted last
    sse,               \* _parse_sse_stream: its locals, its input and its output
    flow,              \* the config flow: its last step, the input and the outcome
    duo,               \* two runs on one client: the shared tracker and each run
    conv               \* the conversation entity: its history and its turns

vars == <<pc, messages, pending, response_chunks, tool_results,
          current_messages, requests, event, inflight, dispatched, textSeen,
          toolsInPass, nEvents, result, raised, response, answered, argText,
          callText, endSeen, leftBehind, restarted, bearer_token, headers,
          sse, flow, duo, conv>>

runVars == <<pc, messages, pending, response_chunks, tool_results,
             current_messages, requests, event, inflight, dispatched, textSeen,
             toolsInPass, nEvents, result, raised, response, answered,
             argText, callText, endSeen, leftBehind, restarted, bearer_token,
             headers>>

----------------------------------------------------------------------------
(* Bounds of the model *)

MaxEvents == 4
MaxLines == 7
MaxFrameLines == 3
MaxHistory == 3
MaxDuoEvents == 5
MaxTurns == 3

(* The pass bound the tests expect of run() *)
MaxIterations == 10

----------------------------------------------------------------------------
(* Values *)

Absent == "<absent>"

Value(kind, data) == [kind |-> kind, data |-> data]

EmptyDict == Value("dict", "")

RECURSIVE Join(_)
Join(chunks) ==
    IF chunks = <<>> THEN <<>> ELSE Head(chunks) \o Join(Tail(chunks))

Ids == {"tc-1", "tc-2"}
Names == {"HassTurnOn", "HassGetState"}
TextDeltas == {<<"I">>, <<"o", "k">>}
ArgDeltas == {<<"{">>, <<"}">>, <<"\"k\":1}">>, <<"null">>}
Statuses == {200, 204, 500}

InputMessages ==
    { <<>>,
      << [role |-> "user", content |-> Value("str", "Hi"), id |-> "u1",
          tool_call_id |-> Absent] >> }

(* The messages a history can hold: one of each role the conversion knows,
   a tool message without tool_call_id, and one of a role it does not know *)
HistoryMessages ==
    { [role |-> "system", content |-> Value("str", "Be brief"), id |-> "s1",
       tool_call_id |-> Absent],
      [role |-> "user", content |-> Value("str", "Hi"), id |-> "u1",
       tool_call_id |-> Absent],
      [role |-> "assistant", content |-> Value("str", "Hello"), id |-> Absent,
       tool_call_id |-> Absent],
      [role |-> "tool", content |-> Value("str", "on"), id |-> Absent,
       tool_call_id |-> "tc-1"],
      [role |-> "tool", content |-> Value("str", "off"), id |-> "t2",
       tool_call_id |-> Absent],
      [role |-> "function", content |-> Value("str", "f()"), id |-> "f1",
       tool_call_id |-> Absent] }

Histories ==
    UNION { [1..n -> HistoryMessages] : n \in 0..MaxHistory }

(* The values the tool backend can answer a call with, and the exceptions
   it can raise *)
BackendOutcomes ==
    { [how |-> "return", value |-> Value("str", "Light turned on")],
      [how |-> "return", value |-> Value("dict", "success")],
      [how |-> "return", value |-> Value("unserializable", "datetime")],
      [how |-> "raise",  value |-> Value("HomeAssistantError", "Device not found")],
      [how |-> "raise",  value |-> Value("RuntimeError", "Unexpected error")] }

DomainErrors == {"HomeAssistantError", "Invalid"}

----------------------------------------------------------------------------
(* Events (ag_ui.core); every event carries the same fields, "-" and <<>>
   standing for a field the kind does not have *)

Ev(type, id, name, delta, message) ==
    [type |-> type, tool_call_id |-> id, tool_call_name |-> name,
     delta |-> delta, message |-> message]

NoMessage == [prefix |-> "", status |-> 0, err |-> ""]

ObservationalTypes ==
    {"RUN_STARTED", "RUN_FINISHED", "TEXT_MESSAGE_START", "TEXT_MESSAGE_END",
     "TOOL_CALL_RESULT", "STATE_SNAPSHOT", "STATE_DELTA", "STEP_STARTED",
     "STEP_FINISHED"}

(* Kinds of EventType that _process_event has no branch for *)
UnhandledTypes == {"CUSTOM"}

AgentEvents ==
    { Ev(t, "-", "-", <<>>, NoMessage) :
          t \in (ObservationalTypes \ {"TOOL_CALL_RESULT"}) \cup UnhandledTypes }
    \cup { Ev("TOOL_CALL_RESULT", i, "-", <<>>, NoMessage) : i \in Ids }
    \cup { Ev("RUN_ERROR", "-", "-", <<>>,
              [prefix |-> "agent", status |-> 0, err |-> ""]) }
    \cup { Ev("TEXT_MESSAGE_CONTENT", "-", "-", d, NoMessage) : d \in TextDeltas }
    \cup { Ev("TOOL_CALL_START", i, n, <<>>, NoMessage) : i \in Ids, n \in Names }
    \cup { Ev("TOOL_CALL_ARGS", i, "-", d, NoMessage) : i \in Ids, d \in ArgDeltas }
    \cup { Ev("TOOL_CALL_END", i, "-", <<>>, NoMessage) : i \in Ids }

NoEvent == Ev("", "-", "-", <<>>, NoMessage)

(* the message without the status *)
RunErrorStatus_without_code(status) ==
    Ev("RUN_ERROR", "-", "-", <<>>,
       [prefix |-> "Remote endpoint error: ", status |-> 0, err |-> ""])

(* RunErrorEvent(message=f"Remote endpoint error: {response.status}") *)
RunErrorStatus(status) ==
    Ev("RUN_ERROR", "-", "-", <<>>,
       [prefix |-> "Remote endpoint error: ", status |-> status, err |-> ""])

(* RunErrorEvent(message=f"Connection error: {err!r}") *)
RunErrorConnection(err) ==
    Ev("RUN_ERROR", "-", "-", <<>>,
       [prefix |-> "Connection error: ", status |-> 0, err |-> err])

----------------------------------------------------------------------------
(* PendingToolCall *)

PendingToolCall(id, name) ==
    [tool_call_id |-> id, tool_name |-> name, args_chunks |-> <<>>]

(* json.loads on the joined argument text. The text is a sequence of lexical
   units; the only texts that are JSON are  {}  ,  {"k":1}  and  null . *)
json_loads(text) ==
    CASE text = <<"{", "}">>        -> [ok |-> TRUE,  value |-> Value("dict", "")]
      [] text = <<"{", "\"k\":1}">> -> [ok |-> TRUE,  value |-> Value("dict", "k")]
      [] text = <<"null">>          -> [ok |-> TRUE,  value |-> Value("null", "")]
      [] OTHER                      -> [ok |-> FALSE, value |-> Value("JSONDecodeError", "")]

(* get_args without its  except json.JSONDecodeError : the failure handed on *)
get_args_strict(p) ==
    LET args_str == Join(p.args_chunks)
    IN  IF args_str = <<>> THEN EmptyDict
        ELSE json_loads(args_str).value

(* PendingToolCall.get_args *)
get_args(p) ==
    LET args_str == Join(p.args_chunks)
    IN  IF args_str = <<>> THEN EmptyDict
        ELSE IF json_loads(args_str).ok THEN json_loads(args_str).value
        ELSE EmptyDict

----------------------------------------------------------------------------
(* The SSE decoder: _parse_sse_stream and _parse_sse_event *)

(* EventType values with a class in _EVENT_TYPE_MAP that the streams of the
   model use, and other labels an  event:  line can carry: one that is no
   EventType, and the empty label *)
SseKnownLabels == {"TEXT_MESSAGE_CONTENT", "RUN_FINISHED"}
SseLabels == SseKnownLabels \cup {"BOGUS", ""}

(* What a  data:  line can carry:
     "TMC"     {"type":"TEXT_MESSAGE_CONTENT","messageId":"m","delta":"Hi"}
     "RF"      {"type":"RUN_FINISHED","threadId":"t","runId":"r"}
     "TMC-1/2" {"type":"TEXT_MESSAGE_CONTENT","messageId":"m",
     "TMC-2/2" "delta":"Hi there"}
     "{invalid"                                                          *)
SseData == {"TMC", "RF", "TMC-1/2", "TMC-2/2", "{invalid"}

(* A line of the body after  rstrip("\r\n") , as the field it starts with
   and the stripped remainder; "undecodable" is a line of bytes that are
   not UTF-8, "other" a line that is neither field nor blank *)
SseLines ==
    { [kind |-> "event", text |-> l] : l \in SseLabels }
    \cup { [kind |-> "data", text |-> d] : d \in SseData }
    \cup { [kind |-> "blank", text |-> ""],
           [kind |-> "other", text |-> ": keep-alive"],
           [kind |-> "undecodable", text |-> "0xff"] }

(* json.loads("\n".join(data_lines)): the payload, as the event type its
   type field names and its delta *)
sse_json_loads(data_lines) ==
    CASE data_lines = <<"TMC">> ->
             [ok |-> TRUE, type |-> "TEXT_MESSAGE_CONTENT", delta |-> <<"Hi">>]
      [] data_lines = <<"RF">> ->
             [ok |-> TRUE, type |-> "RUN_FINISHED", delta |-> <<>>]
      [] data_lines = <<"TMC-1/2", "TMC-2/2">> ->
             [ok |-> TRUE, type |-> "TEXT_MESSAGE_CONTENT",
              delta |-> <<"Hi there">>]
      [] OTHER -> [ok |-> FALSE, type |-> "", delta |-> <<>>]

(* _parse_sse_event: the events it returns, none when it returns None.
   model_validate of the class of the label fails on a payload of another
   type *)
_parse_sse_event(event_type_str, data_lines) ==
    LET payload == sse_json_loads(data_lines)
    IN  IF ~payload.ok THEN <<>>
        ELSE IF event_type_str \notin SseKnownLabels THEN <<>>
        ELSE IF payload.type # event_type_str THEN <<>>
        ELSE << Ev(payload.type, "-", "-", payload.delta, NoMessage) >>

(* _parse_sse_stream before its first line. frame, expected and dropped
   record the body: the lines read since the last blank line, the events of
   the frames that were well formed, and for every other frame with a label
   and data what is wrong with it and how many well-formed frames came
   before it *)
SseIdle ==
    [event_type |-> Absent, data_lines |-> <<>>, emitted |-> <<>>,
     frame |-> <<>>, expected |-> <<>>, dropped |-> {}, nLines |-> 0,
     raised |-> "", closed |-> FALSE]

FrameLabels(frame) == SelectSeq(frame, LAMBDA l : l.kind = "event")

FrameData(frame) ==
    LET datas == SelectSeq(frame, LAMBDA l : l.kind = "data")
    IN  [i \in 1..Len(datas) |-> datas[i].text]

(* What is wrong with a frame: it has neither an event line nor a data
   line; it has no event line; it has no data line; its label is the empty
   string; its label is no event type; its data is not JSON; its payload is
   not one of the type of its label; nothing ("") *)
FrameDefect(frame) ==
    LET labels == FrameLabels(frame)
        payload == sse_json_loads(FrameData(frame))
    IN  CASE labels = <<>> /\ FrameData(frame) = <<>> -> "empty"
          [] labels = <<>> -> "no-label"
          [] FrameData(frame) = <<>> -> "no-data"
          [] labels[Len(labels)].text = "" -> "empty-label"
          [] labels[Len(labels)].text \notin SseKnownLabels -> "label"
          [] ~payload.ok -> "json"
          [] payload.type # labels[Len(labels)].text -> "payload"
          [] OTHER -> ""

(* The events of a frame, from its lines *)
FrameEvents(frame) ==
    LET payload == sse_json_loads(FrameData(frame))
    IN  IF FrameDefect(frame) = ""
        THEN << Ev(payload.type, "-", "-", payload.delta, NoMessage) >>
        ELSE <<>>

(* a blank line that resets the data fragments and keeps the label *)
SseBlank_keeps_label(d) ==
    LET out == IF d.event_type \notin {Absent, ""} /\ d.data_lines # <<>>
               THEN _parse_sse_event(d.event_type, d.data_lines)
               ELSE <<>>
    IN  [d EXCEPT !.emitted = @ \o out, !.data_lines = <<>>]

(* a frame without a label taken as one of the type its payload names *)
SseBlank_label_from_payload(d) ==
    LET label == IF d.event_type \in {Absent, ""}
                 THEN sse_json_loads(d.data_lines).type
                 ELSE d.event_type
        out == IF d.data_lines # <<>>
               THEN _parse_sse_event(label, d.data_lines)
               ELSE <<>>
    IN  [d EXCEPT !.emitted = @ \o out, !.event_type = Absent,
                  !.data_lines = <<>>]

(* the accumulator after a blank line that emitted nothing: left as it is *)
SseBlank_reset_on_emit_only(d) ==
    LET out == IF d.event_type \notin {Absent, ""} /\ d.data_lines # <<>>
               THEN _parse_sse_event(d.event_type, d.data_lines)
               ELSE <<>>
    IN  IF out = <<>>
        THEN d
        ELSE [d EXCEPT !.emitted = @ \o out, !.event_type = Absent,
                       !.data_lines = <<>>]

(* elif line == "": yield the event of the accumulator if it has a label
   and data and the event parses; reset the accumulator *)
SseBlank(d) ==
    LET out == IF d.event_type \notin {Absent, ""} /\ d.data_lines # <<>>
               THEN _parse_sse_event(d.event_type, d.data_lines)
               ELSE <<>>
    IN  [d EXCEPT !.emitted = @ \o out, !.event_type = Absent,
                  !.data_lines = <<>>]

----------------------------------------------------------------------------
(* config_flow.py *)

DEFAULT_TIMEOUT == 120

(* An endpoint the user can type, as a sequence of lexical units *)
Endpoints ==
    { <<"http://", "host">>,
      <<"https://", "host", "/">>,
      <<"http://", "host", "/", "/">>,
      <<"https://", "host", "/", "api", "/">>,
      <<"ftp://", "host">>,
      <<"host", "/">>,
      <<"http://">>,
      <<>> }

(* The form as submitted: bearer_token and timeout are optional fields, and
   an optional timeout is <<>> when it is not given *)
UserInputs ==
    [agui_endpoint : Endpoints,
     bearer_token : {Absent, "", "secret-token"},
     timeout : {<<>>, <<60>>}]

(* What _test_endpoint does when it is invoked: it returns, or the HEAD
   request raises aiohttp.ClientError, or something else raises *)
TestOutcomes == {"ok", "ClientError", "TimeoutError"}

(* str.rstrip("/"): the trailing slashes taken off, those of a closing
   scheme unit included *)
RECURSIVE rstrip_slash(_)
rstrip_slash(text) ==
    IF text = <<>> THEN <<>>
    ELSE LET last == text[Len(text)]
             init == SubSeq(text, 1, Len(text) - 1)
         IN  CASE last = "/" -> rstrip_slash(init)
               [] last = "http://" -> Append(init, "http:")
               [] last = "https://" -> Append(init, "https:")
               [] last = "ftp://" -> Append(init, "ftp:")
               [] OTHER -> text

(* endpoint.startswith(("http://", "https://")) *)
startswith_http(text) ==
    /\ text # <<>>
    /\ text[1] \in {"http://", "https://"}

(* The flow before its first step. input holds the form submitted last,
   tests the invocations of _test_endpoint that step made, data the data
   of the entry it created *)
FlowIdle ==
    [step |-> "start", errors |-> {}, input |-> <<>>, tests |-> <<>>,
     data |-> <<>>]

(* async_step_user with the connectivity test made whatever the URL *)
async_step_user_tests_any_url(user_input, outcome, configured) ==
    LET endpoint == rstrip_slash(user_input.agui_endpoint)
        token == user_input.bearer_token
        tests == << [endpoint |-> endpoint, bearer_token |-> token,
                     outcome |-> outcome] >>
        errors == IF ~startswith_http(endpoint) THEN {"invalid_url"}
                  ELSE IF outcome = "ClientError" THEN {"cannot_connect"}
                  ELSE IF outcome # "ok" THEN {"unknown"}
                  ELSE {}
    IN  IF errors # {}
        THEN [step |-> "form", errors |-> errors, input |-> <<user_input>>,
              tests |-> tests, data |-> <<>>]
        ELSE IF configured
        THEN [step |-> "abort", errors |-> {}, input |-> <<user_input>>,
              tests |-> tests, data |-> <<>>]
        ELSE [step |-> "entry", errors |-> {}, input |-> <<user_input>>,
              tests |-> tests,
              data |-> << [agui_endpoint |-> endpoint,
                           timeout |-> IF user_input.timeout = <<>>
                                       THEN DEFAULT_TIMEOUT
                                       ELSE user_input.timeout[1],
                           bearer_token |->
                               IF token \in {Absent, ""} THEN Absent
                               ELSE token] >>]

(* async_step_user(user_input) for a submitted form. outcome is what
   _test_endpoint does if it is invoked; configured tells whether an entry
   of this endpoint exists, which makes _abort_if_unique_id_configured
   abort the flow *)
async_step_user(user_input, outcome, configured) ==
    LET endpoint == rstrip_slash(user_input.agui_endpoint)
        token == user_input.bearer_token
        valid == startswith_http(endpoint)
        tests == IF valid
                 THEN << [endpoint |-> endpoint, bearer_token |-> token,
                          outcome |-> outcome] >>
                 ELSE <<>>
        errors == IF ~valid THEN {"invalid_url"}
                  ELSE IF outcome = "ClientError" THEN {"cannot_connect"}
                  ELSE IF outcome # "ok" THEN {"unknown"}
                  ELSE {}
    IN  IF errors # {}
        THEN [step |-> "form", errors |-> errors, input |-> <<user_input>>,
              tests |-> tests, data |-> <<>>]
        ELSE IF configured
        THEN [step |-> "abort", errors |-> {}, input |-> <<user_input>>,
              tests |-> tests, data |-> <<>>]
        ELSE [step |-> "entry", errors |-> {}, input |-> <<user_input>>,
              tests |-> tests,
              data |-> << [agui_endpoint |-> endpoint,
                           timeout |-> IF user_input.timeout = <<>>
                                       THEN DEFAULT_TIMEOUT
                                       ELSE user_input.timeout[1],
                           bearer_token |->
                               IF token \in {Absent, ""} THEN Absent
                               ELSE token] >>]

----------------------------------------------------------------------------
(* tool_executor.py *)

ToolCallResult(id, name, content, status) ==
    [tool_call_id |-> id, tool_name |-> name, content |-> content,
     status |-> status]

(* A string the code builds from a value: the value itself (a str passed
   through), json.dumps of it, or f"Error: {err!r}" *)
Content(form, of) == [form |-> form, of |-> of]

(* json.dumps raises TypeError on a value that is not JSON serializable *)
json_dumps(value) ==
    IF value.kind = "unserializable"
    THEN [raises |-> "TypeError", text |-> Content("", value)]
    ELSE [raises |-> "", text |-> Content("json", value)]

(* execute_tool without its  except Exception  clause *)
execute_tool_domain_errors_only(tool_call_id, tool_name, tool_args, outcome) ==
    IF outcome.how = "raise" /\ outcome.value.kind \in DomainErrors
    THEN [raises |-> "",
          result |-> ToolCallResult(tool_call_id, tool_name,
                                    Content("Error: ", outcome.value), "error")]
    ELSE IF outcome.how = "raise"
    THEN [raises |-> outcome.value.kind,
          result |-> ToolCallResult(tool_call_id, tool_name,
                                    Content("", outcome.value), "error")]
    ELSE [raises |-> "",
          result |-> ToolCallResult(tool_call_id, tool_name,
                                    Content("str", outcome.value), "success")]

(* execute_tool with json.dumps applied to every response, strings too *)
execute_tool_dumps_all(tool_call_id, tool_name, tool_args, outcome) ==
    IF outcome.how = "raise"
    THEN [raises |-> "",
          result |-> ToolCallResult(tool_call_id, tool_name,
                                    Content("Error: ", outcome.value), "error")]
    ELSE [raises |-> json_dumps(outcome.value).raises,
          result |-> ToolCallResult(tool_call_id, tool_name,
                                    json_dumps(outcome.value).text, "success")]

execute_tool(tool_call_id, tool_name, tool_args, outcome) ==
    IF outcome.how = "raise" /\ outcome.value.kind \in DomainErrors
    THEN [raises |-> "",
          result |-> ToolCallResult(tool_call_id, tool_name,
                                    Content("Error: ", outcome.value), "error")]
    ELSE IF outcome.how = "raise"
    THEN [raises |-> "",
          result |-> ToolCallResult(tool_call_id, tool_name,
                                    Content("Error: ", outcome.value), "error")]
    ELSE IF outcome.value.kind = "str"
    THEN [raises |-> "",
          result |-> ToolCallResult(tool_call_id, tool_name,
                                    Content("str", outcome.value), "success")]
    ELSE [raises |-> json_dumps(outcome.value).raises,
          result |-> ToolCallResult(tool_call_id, tool_name,
                                    json_dumps(outcome.value).text, "success")]

----------------------------------------------------------------------------
(* client.py: helpers of run and _process_event *)

(* the message of a tool result filed under the name of the tool *)
ToolResultMessage_by_name(res) ==
    [role |-> "tool", content |-> res.content, id |-> Absent,
     tool_call_id |-> res.tool_name]

(* the dict appended to current_messages for a tool result: no "id" key *)
ToolResultMessage(res) ==
    [role |-> "tool", content |-> res.content, id |-> Absent,
     tool_call_id |-> res.tool_call_id]

Get(v, default) == IF v = Absent THEN default ELSE v

(* the messages converted from the newest to the oldest *)
_convert_to_agui_messages_newest_first(msgs) ==
    LET kept == SelectSeq(msgs, LAMBDA m :
                    m.role \in {"system", "user", "assistant", "tool"})
    IN  [i \in 1..Len(kept) |->
            LET msg == kept[Len(kept) + 1 - i]
            IN  [role |-> msg.role, content |-> msg.content,
                 id |-> Get(msg.id, ""),
                 toolCallId |-> IF msg.role = "tool"
                                THEN Get(msg.tool_call_id, "") ELSE Absent]]

RECURSIVE _convert_to_agui_messages(_)
_convert_to_agui_messages(msgs) ==
    IF msgs = <<>> THEN <<>>
    ELSE LET msg == Head(msgs)
             rest == _convert_to_agui_messages(Tail(msgs))
         IN  IF msg.role \in {"system", "user", "assistant"}
             THEN << [role |-> msg.role, content |-> msg.content,
                      id |-> Get(msg.id, ""), toolCallId |-> Absent] >> \o rest
             ELSE IF msg.role = "tool"
             THEN << [role |-> "tool", content |-> msg.content,
                      id |-> Get(msg.id, ""),
                      toolCallId |-> Get(msg.tool_call_id, "")] >> \o rest
             ELSE rest

(* the chunks joined by a blank: " ".join(response_chunks) *)
AGUIClientResult_joined_by_blank(chunks, msgs, results) ==
    [response_text |-> IF Len(chunks) > 1
                       THEN Head(chunks) \o <<" ">> \o Join(Tail(chunks))
                       ELSE Join(chunks),
     messages |-> msgs, tool_results |-> results]

(* the response text put into the returned history as an assistant message *)
AGUIClientResult_with_assistant_message(chunks, msgs, results) ==
    [response_text |-> Join(chunks),
     messages |-> IF chunks = <<>> THEN msgs
                  ELSE Append(msgs, [role |-> "assistant",
                                     content |-> Value("str", "response"),
                                     id |-> Absent, tool_call_id |-> Absent]),
     tool_results |-> results]

(* a result built from the input instead of the accumulators *)
AGUIClientResult_without_tool_results(chunks, msgs, results) ==
    [response_text |-> Join(chunks), messages |-> msgs, tool_results |-> <<>>]

AGUIClientResult(chunks, msgs, results) ==
    [response_text |-> Join(chunks), messages |-> msgs, tool_results |-> results]

NoResult == AGUIClientResult(<<>>, <<>>, <<>>)

NoResponse == [status |-> 0, failed |-> ""]

NoCall == [tool_call_id |-> "-", tool_name |-> "-", tool_args |-> EmptyDict]

(* the delta assigned instead of appended *)
OnTextContent_replace(chunks, e) == <<e.delta>>

(* TEXT_MESSAGE_CONTENT: response_chunks.append(event.delta) *)
OnTextContent(chunks, e) == Append(chunks, e.delta)

(* a start for an id that is pending leaves the entry it finds *)
OnToolCallStart_keeps_entry(pend, e) ==
    IF e.tool_call_id \in DOMAIN pend THEN pend
    ELSE [i \in DOMAIN pend \cup {e.tool_call_id} |->
             IF i = e.tool_call_id
             THEN PendingToolCall(e.tool_call_id, e.tool_call_name)
             ELSE pend[i]]

(* TOOL_CALL_START: self._pending_tool_calls[id] = PendingToolCall(id, name) *)
OnToolCallStart(pend, e) ==
    [i \in DOMAIN pend \cup {e.tool_call_id} |->
        IF i = e.tool_call_id
        THEN PendingToolCall(e.tool_call_id, e.tool_call_name)
        ELSE pend[i]]

(* a fragment for an id that is not tracked kept under that id *)
OnToolCallArgs_buffer_untracked(pend, e) ==
    IF e.tool_call_id \in DOMAIN pend
    THEN [pend EXCEPT ![e.tool_call_id].args_chunks = Append(@, e.delta)]
    ELSE [i \in DOMAIN pend \cup {e.tool_call_id} |->
             IF i = e.tool_call_id
             THEN [tool_call_id |-> i, tool_name |-> "-",
                   args_chunks |-> <<e.delta>>]
             ELSE pend[i]]

(* the fragment list overwritten by the latest fragment *)
OnToolCallArgs_keep_last(pend, e) ==
    IF e.tool_call_id \in DOMAIN pend
    THEN [pend EXCEPT ![e.tool_call_id].args_chunks = <<e.delta>>]
    ELSE pend

(* TOOL_CALL_ARGS: pending.args_chunks.append(event.delta) if the id is tracked *)
OnToolCallArgs(pend, e) ==
    IF e.tool_call_id \in DOMAIN pend
    THEN [pend EXCEPT ![e.tool_call_id].args_chunks = Append(@, e.delta)]
    ELSE pend

(* the pop of one id emptying the dict *)
Pop_every(pend, id) == [i \in {} |-> pend[i]]

(* self._pending_tool_calls.pop(id, None): the dict without the id *)
Pop(pend, id) == [i \in DOMAIN pend \ {id} |-> pend[i]]

----------------------------------------------------------------------------
(* The state machine *)

(* the bearer_token argument of the constructor: not passed, passed as
   None, passed as a token *)
BearerTokens == {Absent, "None", "secret-token"}

(* _fetch_remote_events: headers *)
RequestHeaders ==
    { <<"Content-Type", "application/json">>,
      <<"Accept", "text/event-stream">> }

EmptyPending == [i \in {} |-> PendingToolCall("-", "-")]

(* the pending calls of the earlier run kept *)
clear_nothing(pend) == pend

(* self._pending_tool_calls.clear() *)
clear(pend) == EmptyPending

(* Two invocations of run on one client, as coroutines of one event loop.
   pending is self._pending_tool_calls, the one dict of the instance;
   results[r] is the tool_results list local to invocation r. open[r] is
   the set of ids the stream of r has started and not ended, lost[r] the
   ids whose tool-call-end came in the stream of r and dispatched nothing;
   overlapped tells whether an invocation was ever started while the other
   was reading its stream *)
DuoRuns == {1, 2}

DuoOther(r) == 3 - r

(* The agent of invocation r names its calls after r, so that the name of
   a dispatched call tells the stream that started it *)
DuoName(r) == IF r = 1 THEN "HassTurnOn" ELSE "HassGetState"

DuoIdle ==
    [pending |-> EmptyPending,
     pc |-> [r \in DuoRuns |-> "idle"],
     results |-> [r \in DuoRuns |-> <<>>],
     open |-> [r \in DuoRuns |-> {}],
     lost |-> [r \in DuoRuns |-> {}],
     overlapped |-> FALSE,
     n |-> 0]

(* conversation.py: the entity around a client. Lists are objects: lists is
   the heap of the message lists, a list being known by its index there;
   history is self._conversation_history, from conversation id to list;
   turn[t] is an invocation of async_process: where it is, its
   conversation_id, its local  messages , the copy run() made of it, and,
   taken when the turn began, the content of the history (before) *)
ConvIds == {"c1", "c2"}

ConvTurns == {1, 2}

ConvOther(t) == 3 - t

NoHistory == [c \in {} |-> <<>>]

ConvIdleTurn ==
    [pc |-> "idle", cid |-> "", messages |-> 0, copy |-> 0,
     before |-> NoHistory, response |-> <<>>, tools |-> <<>>]

ConvIdle ==
    [lists |-> <<>>,
     history |-> [c \in {} |-> 0],
     turn |-> [t \in ConvTurns |-> ConvIdleTurn],
     n |-> 0]

(* The content of the history: each conversation id with the messages of
   its list *)
Stored(c) == [id \in DOMAIN c.history |-> c.lists[c.history[id]]]

(* {"role": "user", "content": user_input.text, "id": ulid.ulid_now()} *)
UserMessage ==
    [role |-> "user", content |-> Value("str", "Hi"), id |-> "ulid",
     tool_call_id |-> Absent]

(* {"role": "assistant", "content": result.response_text, "id": ...} *)
AssistantMessage(text) ==
    [role |-> "assistant", content |-> Value("str", text), id |-> "ulid",
     tool_call_id |-> Absent]

(* What a run does, seen from its caller: it raises, or it returns after
   having gathered text chunks and tool results *)
ConvRunOutcomes ==
    { [how |-> "raise", chunks |-> <<>>, tools |-> <<>>] }
    \cup { [how |-> "return", chunks |-> c, tools |-> r] :
              c \in {<<>>, << <<"o", "k">> >>},
              r \in {<<>>, << ToolCallResult("tc-1", "HassTurnOn",
                                  Content("str", Value("str", "on")),
                                  "success") >>} }

(* AGUIClient(endpoint, timeout, bearer_token=token): __init__ takes
   endpoint and timeout only, and a call that passes another keyword raises
   TypeError, leaving no client *)
Init ==
    /\ bearer_token \in BearerTokens
    /\ pc = IF bearer_token = Absent THEN "idle" ELSE "no_client"
    /\ messages = <<>>
    /\ pending = EmptyPending
    /\ response_chunks = <<>>
    /\ tool_results = <<>>
    /\ current_messages = <<>>
    /\ requests = <<>>
    /\ event = NoEvent
    /\ inflight = NoCall
    /\ dispatched = <<>>
    /\ textSeen = <<>>
    /\ toolsInPass = 0
    /\ nEvents = 0
    /\ result = NoResult
    /\ raised = ""
    /\ response = NoResponse
    /\ answered = <<>>
    /\ argText = [i \in {} |-> <<>>]
    /\ callText = <<>>
    /\ endSeen = <<>>
    /\ leftBehind = {}
    /\ restarted = {}
    /\ headers = {}
    /\ sse = SseIdle
    /\ flow = FlowIdle
    /\ duo = DuoIdle
    /\ conv = ConvIdle

(* run(), lines 160-182 and the call of _fetch_remote_events: the pending
   calls are cleared, the accumulators are fresh, the request is built from
   a copy of the caller's messages *)
RunStart(msgs) ==
    /\ pc \in {"idle", "returned", "raised"}
    /\ messages' = msgs
    /\ pending' = clear(pending)
    /\ response_chunks' = <<>>
    /\ tool_results' = <<>>
    /\ current_messages' = msgs
    /\ requests' = << _convert_to_agui_messages(msgs) >>
    /\ event' = NoEvent
    /\ inflight' = NoCall
    /\ dispatched' = <<>>
    /\ textSeen' = <<>>
    /\ toolsInPass' = 0
    /\ nEvents' = 0
    /\ result' = NoResult
    /\ raised' = ""
    /\ response' = NoResponse
    /\ answered' = <<>>
    /\ argText' = [i \in {} |-> <<>>]
    /\ callText' = <<>>
    /\ endSeen' = <<>>
    /\ leftBehind' = DOMAIN pending
    /\ restarted' = {}
    /\ headers' = RequestHeaders
    /\ UNCHANGED <<bearer_token, sse, flow, duo, conv>>
    /\ pc' = "connecting"

(* a call still pending at the end of the turn resolved with an error
   result and its role=tool message *)
Returns_resolves_pending ==
    LET left == IF DOMAIN pending = {} THEN <<>>
                ELSE LET i == CHOOSE i \in DOMAIN pending : TRUE
                     IN  << ToolCallResult(i, pending[i].tool_name,
                                Content("Error: ",
                                        Value("RuntimeError", "incomplete")),
                                "error") >>
    IN  /\ result' = AGUIClientResult(response_chunks,
                          current_messages \o
                              [k \in 1..Len(left) |-> ToolResultMessage(left[k])],
                          tool_results \o left)
        /\ pc' = "returned"

(* run(), lines 194-198: the stream is drained and run returns *)
Returns ==
    /\ result' = AGUIClientResult(response_chunks, current_messages, tool_results)
    /\ pc' = "returned"

(* An event that _process_event only logs was yielded last, and the stream
   is over *)
LastEvent(e, status, failed) ==
    /\ event' = e
    /\ response' = [status |-> status, failed |-> failed]
    /\ nEvents' = nEvents + 1
    /\ Returns
    /\ UNCHANGED <<messages, pending, response_chunks, tool_results,
                   current_messages, requests, inflight, dispatched, textSeen,
                   toolsInPass, raised, answered, argText, callText, endSeen,
                   leftBehind, restarted, bearer_token, headers, sse, flow, duo, conv>>

(* _fetch_remote_events: opening the session or posting raises
   aiohttp.ClientError; the except clause yields one RunErrorEvent *)
ConnectFails ==
    /\ pc = "connecting"
    /\ LastEvent(RunErrorConnection("ClientError"), 0, "connect")

(* _fetch_remote_events: the remote answers with a status. 200 opens the
   stream; any other status is logged with the body read by response.text(),
   which is itself a read of the connection and may raise ClientError *)
Responds(status, bodyRead) ==
    /\ pc = "connecting"
    /\ IF status = 200
       THEN /\ bodyRead
            /\ pc' = "streaming"
            /\ response' = [status |-> status, failed |-> ""]
            /\ UNCHANGED <<messages, pending, response_chunks,
                           tool_results, current_messages, requests, event,
                           inflight, dispatched, textSeen, toolsInPass,
                           nEvents, result, raised, answered, argText,
                           callText, endSeen, leftBehind, restarted, bearer_token,
                           headers, sse, flow, duo, conv>>
       ELSE IF bodyRead
       THEN LastEvent(RunErrorStatus(status), status, "")
       ELSE LastEvent(RunErrorConnection("ClientError"), status, "body")

(* the ClientError of a read of the stream left uncaught *)
StreamFails_uncaught ==
    /\ pc = "streaming"
    /\ pc' = "raised"
    /\ raised' = "ClientError"
    /\ response' = [status |-> response.status, failed |-> "stream"]
    /\ UNCHANGED <<messages, pending, response_chunks, tool_results,
                   current_messages, requests, event, inflight, dispatched,
                   textSeen, toolsInPass, nEvents, result, answered, argText,
                   callText, endSeen, leftBehind, restarted, bearer_token, headers, sse, flow, duo, conv>>

(* reading the stream raises aiohttp.ClientError *)
StreamFails ==
    /\ pc = "streaming"
    /\ LastEvent(RunErrorConnection("ClientError"), response.status, "stream")

(* the end of the stream answered with a new request instead of a return *)
StreamEnds_requests_again ==
    /\ pc = "streaming"
    /\ pc' = "connecting"
    /\ UNCHANGED <<messages, pending, response_chunks, tool_results,
                   current_messages, requests, event, inflight, dispatched,
                   textSeen, toolsInPass, nEvents, result, raised, response,
                   answered, argText, callText, endSeen, leftBehind, restarted,
                   bearer_token, headers, sse, flow, duo, conv>>

(* the stream ends *)
StreamEnds ==
    /\ pc = "streaming"
    /\ Returns
    /\ UNCHANGED <<messages, pending, response_chunks, tool_results,
                   current_messages, requests, event, inflight, dispatched,
                   textSeen, toolsInPass, nEvents, raised, response, answered,
                   argText, callText, endSeen, leftBehind, restarted, bearer_token,
                   headers, sse, flow, duo, conv>>

(* the next event taken from the stream while a dispatch is running *)
StreamIsRead_during_dispatch(at) == at \in {"streaming", "dispatching"}

(* async for event in ...: await self._process_event(...): the next event
   is taken from the stream when _process_event has returned *)
StreamIsRead(at) == at = "streaming"

(* The argument text the stream has sent for each call it started and has
   not ended: what one fragment holding the whole text would carry *)
SentArgText(sent, e) ==
    CASE e.type = "TOOL_CALL_START" ->
              [i \in DOMAIN sent \cup {e.tool_call_id} |->
                  IF i = e.tool_call_id THEN <<>> ELSE sent[i]]
      [] e.type = "TOOL_CALL_ARGS" /\ e.tool_call_id \in DOMAIN sent ->
              [sent EXCEPT ![e.tool_call_id] = @ \o e.delta]
      [] e.type = "TOOL_CALL_END" ->
              [i \in DOMAIN sent \ {e.tool_call_id} |-> sent[i]]
      [] OTHER -> sent

(* a tool-call-result from the agent taken as the end of its call *)
IsDispatchTrigger_result_too(e) ==
    e.type \in {"TOOL_CALL_END", "TOOL_CALL_RESULT"}

(* The one branch of _process_event that dispatches: elif TOOL_CALL_END *)
IsDispatchTrigger(e) == e.type = "TOOL_CALL_END"

(* One iteration of the loop of run() over the stream: the stream yields e
   and _process_event handles it, up to the await of execute_tool *)
_process_event(e) ==
    /\ StreamIsRead(pc)
    /\ nEvents < MaxEvents
    /\ event' = e
    /\ nEvents' = nEvents + 1
    /\ textSeen' = IF e.type = "TEXT_MESSAGE_CONTENT"
                   THEN Append(textSeen, e.delta) ELSE textSeen
    /\ argText' = SentArgText(argText, e)
    /\ callText' = IF e.type = "TOOL_CALL_END" /\ e.tool_call_id \in DOMAIN argText
                   THEN Append(callText, argText[e.tool_call_id]) ELSE callText
    /\ endSeen' = IF e.type = "TOOL_CALL_END" /\ e.tool_call_id \in DOMAIN argText
                  THEN Append(endSeen, e.tool_call_id) ELSE endSeen
    /\ restarted' = IF /\ e.type = "TOOL_CALL_START"
                       /\ e.tool_call_id \in DOMAIN argText
                       /\ argText[e.tool_call_id] # <<>>
                    THEN restarted \cup {e.tool_call_id} ELSE restarted
    /\ CASE e.type = "TEXT_MESSAGE_CONTENT" ->
              /\ response_chunks' = OnTextContent(response_chunks, e)
              /\ UNCHANGED <<pending, inflight, dispatched, pc>>
         [] e.type = "TOOL_CALL_START" ->
              /\ pending' = OnToolCallStart(pending, e)
              /\ UNCHANGED <<response_chunks, inflight, dispatched, pc>>
         [] e.type = "TOOL_CALL_ARGS" ->
              /\ pending' = OnToolCallArgs(pending, e)
              /\ UNCHANGED <<response_chunks, inflight, dispatched, pc>>
         [] IsDispatchTrigger(e) /\ e.tool_call_id \in DOMAIN pending ->
              LET p == pending[e.tool_call_id]
                  call == [tool_call_id |-> p.tool_call_id,
                           tool_name |-> p.tool_name,
                           tool_args |-> get_args(p)]
              IN  /\ pending' = Pop(pending, e.tool_call_id)
                  /\ inflight' = call
                  /\ dispatched' = Append(dispatched, call)
                  /\ pc' = "dispatching"
                  /\ UNCHANGED response_chunks
         [] OTHER ->
              UNCHANGED <<pending, response_chunks, inflight, dispatched, pc>>
    /\ UNCHANGED <<messages, tool_results, current_messages, requests,
                   toolsInPass, result, raised, response, answered, leftBehind,
                   bearer_token, headers, sse, flow, duo, conv>>

(* the new entry put before the earlier ones *)
append_at_front(list, x) == <<x>> \o list

(* tool_results.append(result), current_messages.append({...}) *)
append(list, x) == Append(list, x)

(* The awaited execute_tool comes back: _process_event appends the result
   and the role=tool message; an exception of execute_tool leaves
   _process_event and run *)
ToolReturns(outcome) ==
    /\ pc = "dispatching"
    /\ LET r == execute_tool(inflight.tool_call_id, inflight.tool_name,
                             inflight.tool_args, outcome)
       IN  IF r.raises # ""
           THEN /\ pc' = "raised"
                /\ raised' = r.raises
                /\ UNCHANGED <<tool_results, current_messages, toolsInPass>>
           ELSE /\ pc' = "streaming"
                /\ tool_results' = append(tool_results, r.result)
                /\ current_messages' =
                       append(current_messages, ToolResultMessage(r.result))
                /\ toolsInPass' = toolsInPass + 1
                /\ UNCHANGED raised
    /\ inflight' = NoCall
    /\ answered' = Append(answered, outcome)
    /\ UNCHANGED <<messages, pending, response_chunks, requests, event,
                   dispatched, textSeen, nEvents, result, response, argText,
                   callText, endSeen, leftBehind, restarted, bearer_token, headers, sse, flow, duo, conv>>

(* The body read so far, after one more line *)
SseRead(d, line) ==
    IF line.kind = "blank"
    THEN [d EXCEPT !.nLines = @ + 1,
                   !.frame = <<>>,
                   !.expected = @ \o FrameEvents(d.frame),
                   !.dropped =
                       IF FrameDefect(d.frame) \in {"", "empty"} THEN @
                       ELSE @ \cup {<<FrameDefect(d.frame), Len(d.expected)>>}]
    ELSE [d EXCEPT !.nLines = @ + 1, !.frame = Append(@, line)]

(* One iteration of  async for line_bytes in content  *)
SseLine(line) ==
    /\ sse.raised = ""
    /\ ~sse.closed
    /\ sse.nLines < MaxLines
    /\ line.kind # "blank" => Len(sse.frame) < MaxFrameLines
    /\ LET read == SseRead(sse, line)
       IN  sse' =
             CASE line.kind = "undecodable" ->
                      [read EXCEPT !.raised = "UnicodeDecodeError"]
               [] line.kind = "event" ->
                      [read EXCEPT !.event_type = line.text]
               [] line.kind = "data" ->
                      [read EXCEPT !.data_lines = Append(@, line.text)]
               [] line.kind = "blank" -> SseBlank(read)
               [] OTHER -> read
    /\ UNCHANGED <<runVars, flow, duo, conv>>

(* the end of the body taken as a blank line: the frame left in the
   accumulator is emitted *)
SseClose_flushes ==
    /\ sse.raised = ""
    /\ ~sse.closed
    /\ sse' = [SseBlank(sse) EXCEPT !.closed = TRUE]
    /\ UNCHANGED <<runVars, flow, duo, conv>>

(* The body ends: the loop over its lines is left *)
SseClose ==
    /\ sse.raised = ""
    /\ ~sse.closed
    /\ sse' = [sse EXCEPT !.closed = TRUE]
    /\ UNCHANGED <<runVars, flow, duo, conv>>

Next ==
    \/ \E msgs \in InputMessages : RunStart(msgs)
    \/ ConnectFails
    \/ \E status \in Statuses, bodyRead \in BOOLEAN : Responds(status, bodyRead)
    \/ \E e \in AgentEvents : _process_event(e)
    \/ \E outcome \in BackendOutcomes : ToolReturns(outcome)
    \/ StreamFails
    \/ StreamEnds

Spec == Init /\ [][Next]_vars

(* The events of a turn about one tool call: one event of each kind that
   _process_event has a branch with an effect for, a run-error and a
   run-finished *)
TurnEvents ==
    { e \in AgentEvents :
        /\ e.type \in {"TEXT_MESSAGE_CONTENT", "TOOL_CALL_START",
                       "TOOL_CALL_ARGS", "TOOL_CALL_END", "RUN_ERROR",
                       "RUN_FINISHED"}
        /\ e.tool_call_id \in {"-", "tc-1"}
        /\ e.tool_call_name \in {"-", "HassTurnOn"}
        /\ e.delta \in {<<>>, <<"I">>, <<"{">>} }

(* A step of a run in progress: the remote answers or the connection
   fails, the stream yields its next event, fails or ends, the awaited
   execute_tool comes back *)
RunStep ==
    \/ ConnectFails
    \/ \E status \in Statuses, bodyRead \in BOOLEAN : Responds(status, bodyRead)
    \/ \E e \in TurnEvents : _process_event(e)
    \/ \E outcome \in BackendOutcomes : ToolReturns(outcome)
    \/ StreamFails
    \/ StreamEnds

NextTurn ==
    \/ \E msgs \in InputMessages : RunStart(msgs)
    \/ RunStep

(* Runs over the events of TurnEvents in which every stream is finite and
   every dispatch comes back: a run in progress is not left waiting for
   ever *)
SpecFair == Init /\ [][NextTurn]_vars /\ WF_vars(RunStep)

(* The request of a run, built from a history of any roles *)
ConvertInit ==
    /\ Init
    /\ bearer_token = Absent

ConvertNext == \E msgs \in Histories : RunStart(msgs)

SpecConvert == ConvertInit /\ [][ConvertNext]_vars

(* async_step_user(None): the empty form is shown *)
FlowShow ==
    /\ flow.step = "start"
    /\ flow' = [FlowIdle EXCEPT !.step = "form"]
    /\ UNCHANGED <<runVars, sse, duo, conv>>

(* async_step_user(user_input): the form is submitted *)
FlowSubmit(user_input, outcome, configured) ==
    /\ flow.step = "form"
    /\ flow' = async_step_user(user_input, outcome, configured)
    /\ UNCHANGED <<runVars, sse, duo, conv>>

FlowNext ==
    \/ FlowShow
    \/ \E user_input \in UserInputs, outcome \in TestOutcomes,
          configured \in BOOLEAN :
            FlowSubmit(user_input, outcome, configured)

(* The config flow alone *)
SpecFlow == ConvertInit /\ [][FlowNext]_vars

(* run(), line 160, of invocation r: the shared dict is cleared; the lists
   of the invocation are fresh *)
DuoStart(r) ==
    /\ duo.pc[r] \in {"idle", "returned"}
    /\ duo' = [duo EXCEPT !.pending = clear(@),
                          !.pc[r] = "streaming",
                          !.results[r] = <<>>,
                          !.open[r] = {},
                          !.lost[r] = {},
                          !.overlapped = @ \/ duo.pc[DuoOther(r)] = "streaming"]
    /\ UNCHANGED <<runVars, sse, flow, conv>>

(* _process_event of invocation r for a tool-call-start of id: the entry
   of id in the shared dict is set *)
DuoToolCallStart(r, id) ==
    /\ duo.pc[r] = "streaming"
    /\ duo.n < MaxDuoEvents
    /\ duo' = [duo EXCEPT
                  !.pending = OnToolCallStart(@,
                                  Ev("TOOL_CALL_START", id, DuoName(r), <<>>,
                                     NoMessage)),
                  !.open[r] = @ \cup {id},
                  !.n = @ + 1]
    /\ UNCHANGED <<runVars, sse, flow, conv>>

(* _process_event of invocation r for the tool-call-end of an id its stream
   started: the entry is popped from the shared dict and, if there was one,
   dispatched, the result going to the list of r. The await of execute_tool
   touches nothing shared, so the branch is one step *)
DuoToolCallEnd(r, id) ==
    /\ duo.pc[r] = "streaming"
    /\ duo.n < MaxDuoEvents
    /\ id \in duo.open[r]
    /\ duo' = [duo EXCEPT
                  !.pending = Pop(@, id),
                  !.results[r] =
                      IF id \in DOMAIN duo.pending
                      THEN Append(@, [tool_call_id |-> id,
                                      tool_name |-> duo.pending[id].tool_name])
                      ELSE @,
                  !.lost[r] = IF id \in DOMAIN duo.pending THEN @
                              ELSE @ \cup {id},
                  !.open[r] = @ \ {id},
                  !.n = @ + 1]
    /\ UNCHANGED <<runVars, sse, flow, conv>>

(* run(), lines 194-198, of invocation r: its stream is over *)
DuoReturns(r) ==
    /\ duo.pc[r] = "streaming"
    /\ duo' = [duo EXCEPT !.pc[r] = "returned", !.open[r] = {}]
    /\ UNCHANGED <<runVars, sse, flow, conv>>

DuoNext ==
    \E r \in DuoRuns :
        \/ DuoStart(r)
        \/ \E id \in Ids : DuoToolCallStart(r, id)
        \/ \E id \in Ids : DuoToolCallEnd(r, id)
        \/ DuoReturns(r)

(* Two invocations of run on one client, interleaved at their awaits *)
SpecDuo == ConvertInit /\ [][DuoNext]_vars

(* The entity of __init__, lines 44-54, holding one client and an empty
   history. The client is taken as built: the keyword bearer_token that
   line 51 passes is one that __init__ of AGUIClient does not take *)
ConvInit ==
    /\ Init
    /\ bearer_token = Absent

(* async_process, lines 73-91, of turn t: messages is the list stored for
   the conversation id, or a new empty list; then async_get_api is awaited *)
ConvBegin(t, cid) ==
    /\ conv.turn[t].pc \in {"idle", "done", "error"}
    /\ conv.n < MaxTurns
    /\ LET known == cid \in DOMAIN conv.history
       IN  conv' = [conv EXCEPT
                 !.lists = IF known THEN @ ELSE Append(@, <<>>),
                 !.turn[t] = [pc |-> "api", cid |-> cid,
                              messages |-> IF known THEN conv.history[cid]
                                           ELSE Len(conv.lists) + 1,
                              copy |-> 0,
                              before |-> Stored(conv),
                              response |-> <<>>, tools |-> <<>>],
                 !.n = @ + 1]
    /\ UNCHANGED <<runVars, sse, flow, duo>>

(* the user message appended to  messages , and run() started on it: the
   list is the object it was, and run() works on  list(messages)  *)
ConvRunStarts(c, t) ==
    LET withUser == [c.lists EXCEPT ![c.turn[t].messages] =
                         Append(@, UserMessage)]
    IN  [c EXCEPT !.lists = Append(withUser, withUser[c.turn[t].messages]),
                  !.turn[t].copy = Len(c.lists) + 1,
                  !.turn[t].pc = "running"]

(* async_process, lines 86-133: async_get_api raises HomeAssistantError and
   the turn answers with an error response, or it returns, the user message
   is appended and run() is called, which runs up to its first await *)
ConvApi(t, ok) ==
    /\ conv.turn[t].pc = "api"
    /\ conv' = IF ok THEN ConvRunStarts(conv, t)
               ELSE [conv EXCEPT !.turn[t].pc = "error"]
    /\ UNCHANGED <<runVars, sse, flow, duo>>

(* async_process, lines 141-152, for the result of run(): the assistant
   message goes to  messages , and result.messages is stored *)
ConvStores(c, t, res) ==
    LET cid == c.turn[t].cid
        lists1 == [c.lists EXCEPT ![c.turn[t].copy] = res.messages]
        lists2 == IF res.response_text # <<>>
                  THEN [lists1 EXCEPT ![c.turn[t].messages] =
                            Append(@, AssistantMessage(res.response_text))]
                  ELSE lists1
    IN  [c EXCEPT !.lists = lists2,
                  !.history = [i \in DOMAIN c.history \cup {cid} |->
                                  IF i = cid THEN c.turn[t].copy
                                  ELSE c.history[i]],
                  !.turn[t].pc = "done",
                  !.turn[t].response = res.response_text,
                  !.turn[t].tools = res.tool_results]

(* async_process, lines 125-166: the awaited run() raises and the turn
   answers with an error response, or it returns its result *)
ConvRunEnds(t, outcome) ==
    /\ conv.turn[t].pc = "running"
    /\ conv' =
         IF outcome.how = "raise"
         THEN [conv EXCEPT !.turn[t].pc = "error"]
         ELSE ConvStores(conv, t,
                  AGUIClientResult(outcome.chunks,
                      conv.lists[conv.turn[t].copy] \o
                          [k \in 1..Len(outcome.tools) |->
                              ToolResultMessage(outcome.tools[k])],
                      outcome.tools))
    /\ UNCHANGED <<runVars, sse, flow, duo>>

ConvNext ==
    \E t \in ConvTurns :
        \/ \E cid \in ConvIds : ConvBegin(t, cid)
        \/ \E ok \in BOOLEAN : ConvApi(t, ok)
        \/ \E outcome \in ConvRunOutcomes : ConvRunEnds(t, outcome)

(* The conversation entity alone: its turns are tasks of one event loop,
   interleaved at their awaits *)
SpecConv == ConvInit /\ [][ConvNext]_vars

(* The decoder alone, fed a body line by line *)
SseInit ==
    /\ Init
    /\ bearer_token = Absent

SseNext ==
    \/ \E line \in SseLines : SseLine(line)
    \/ SseClose

SpecSse == SseInit /\ [][SseNext]_vars

----------------------------------------------------------------------------
(* Properties of the run loop *)

Last(seq) == seq[Len(seq)]

(* C1: looping rule. run returns only after a pass in which no tool call
   was executed, or when the pass bound is reached: a pass that executed a
   tool call is followed by another request. *)
C1_LoopingRule ==
    pc = "returned" => (toolsInPass = 0 \/ Len(requests) = MaxIterations)

(* the single pass so far streamed one tool-call-start, the matching
   tool-call-end, and nothing else *)
OneToolCallPerPass ==
    /\ nEvents = 2
    /\ toolsInPass = 1
    /\ textSeen = <<>>

(* C2: loop bound. Against an agent whose every pass streams exactly one
   new tool call and never text, run returns after exactly MaxIterations
   requests with MaxIterations tool results. *)
C2_LoopBound ==
    (pc = "returned" /\ OneToolCallPerPass)
        => /\ Len(requests) = MaxIterations
           /\ Len(result.tool_results) = MaxIterations

(* C3: a run issues at most MaxIterations requests, and a run that returns
   returns normally with everything accumulated: the text of every text
   delta streamed, one result per completed tool call, and the input
   messages followed by the tool messages of these results. *)
C3_BoundedPasses ==
    /\ Len(requests) <= MaxIterations
    /\ pc = "returned" =>
          /\ raised = ""
          /\ result.response_text = Join(textSeen)
          /\ Len(result.tool_results) = Len(answered)
          /\ result.tool_results = tool_results
          /\ result.messages =
                 messages \o [i \in 1..Len(answered) |->
                                 ToolResultMessage(tool_results[i])]

(* a run that was ended while the agent was still calling tools returned
   its text and its tool results *)
C3_Witness ==
    /\ pc = "returned"
    /\ toolsInPass > 0
    /\ result.response_text # <<>>
    /\ Len(result.tool_results) = toolsInPass
    /\ Len(result.messages) = Len(messages) + toolsInPass

(* C4: when the first pass executes no tool call, run has issued exactly one
   request and returns the text of that pass with no tool result. *)
C4_NoToolsSinglePass ==
    (pc = "returned" /\ Len(dispatched) = 0)
        => /\ Len(requests) = 1
           /\ result.response_text = Join(textSeen)
           /\ result.tool_results = <<>>

C4_Witness ==
    /\ pc = "returned"
    /\ Len(dispatched) = 0
    /\ Len(textSeen) = 2
    /\ textSeen[1] # textSeen[2]
    /\ result.response_text = Join(textSeen)

(* C5: when run returns before the pass bound, every tool call completed in
   the run was completed before the last request was sent, and that request
   carries, after the input messages, one role=tool message per completed
   call, in completion order, with its tool_call_id and result content. *)
C5_ToolResultsInNextRequest ==
    (pc = "returned" /\ Len(requests) < MaxIterations)
        => LET sent == Last(requests)
               n == Len(_convert_to_agui_messages(messages))
           IN  /\ Len(sent) = n + Len(tool_results)
               /\ SubSeq(sent, 1, n) = _convert_to_agui_messages(messages)
               /\ \A i \in 1..Len(tool_results) :
                      /\ sent[n + i].role = "tool"
                      /\ sent[n + i].toolCallId = tool_results[i].tool_call_id
                      /\ sent[n + i].content = tool_results[i].content

----------------------------------------------------------------------------
(* Properties of the transport-error policy *)

IsSuccess(status) == status \in 200..299

AnsweredNonSuccess == response.status # 0 /\ ~IsSuccess(response.status)

(* C6, as stated: a non-success status makes the pass yield exactly one
   run-error event, carrying the status code, and nothing else; run raises
   nothing and the result is empty, with the input messages. *)
C6_StatusErrorEvent ==
    AnsweredNonSuccess =>
        /\ pc = "returned"
        /\ raised = ""
        /\ nEvents = 1
        /\ event.type = "RUN_ERROR"
        /\ event.message.status = response.status
        /\ result = [response_text |-> <<>>, messages |-> messages,
                     tool_results |-> <<>>]

(* C6, amended: the one run-error event carries the status code when the
   body of the error response could be read, and is the connection-error
   event when reading that body failed. *)
C6_StatusOrBodyErrorEvent ==
    AnsweredNonSuccess =>
        /\ pc = "returned"
        /\ raised = ""
        /\ nEvents = 1
        /\ event.type = "RUN_ERROR"
        /\ IF response.failed = "body"
           THEN event.message.prefix = "Connection error: "
           ELSE /\ event.message.prefix = "Remote endpoint error: "
                /\ event.message.status = response.status
        /\ result = [response_text |-> <<>>, messages |-> messages,
                     tool_results |-> <<>>]

C6_Witness ==
    /\ pc = "returned"
    /\ response = [status |-> 500, failed |-> ""]
    /\ event.type = "RUN_ERROR"
    /\ event.message.status = 500
    /\ nEvents = 1
    /\ messages # <<>>
    /\ result.messages = messages

(* C7: a connection-level failure, while connecting or while reading, is
   turned into exactly one run-error event that ends the pass: the step in
   which it happens yields that one event, leaves everything processed so
   far in place, raises nothing and makes run return; no request follows. *)
C7_ConnectionFailure ==
    /\ [](response.failed # "" =>
             /\ pc = "returned"
             /\ raised = ""
             /\ Len(requests) = 1
             /\ event = RunErrorConnection("ClientError"))
    /\ [][(response.failed = "" /\ response'.failed # "") =>
             /\ nEvents' = nEvents + 1
             /\ UNCHANGED <<response_chunks, tool_results, current_messages,
                            requests>>
             /\ result' = [response_text |-> Join(textSeen),
                           messages |-> current_messages,
                           tool_results |-> tool_results]]_vars

(* the stream broke after a text delta and a tool call had been processed *)
C7_Witness ==
    /\ response.failed = "stream"
    /\ pc = "returned"
    /\ result.response_text # <<>>
    /\ Len(result.tool_results) = 1
    /\ nEvents = 4

----------------------------------------------------------------------------
(* Properties of tool dispatch *)

(* C8: execute_tool never raises: whatever the backend answers (a string,
   a structured value of any kind, a domain error, any other exception), the
   call yields a ToolCallResult with the given tool_call_id and tool_name,
   status error with the original error in the content exactly when the
   backend raised, status success otherwise. *)
C8_ExecuteToolNeverRaises ==
    /\ raised = ""
    /\ Len(tool_results) = Len(answered)
    /\ \A i \in 1..Len(tool_results) :
          /\ tool_results[i].tool_call_id = dispatched[i].tool_call_id
          /\ tool_results[i].tool_name = dispatched[i].tool_name
          /\ (tool_results[i].status = "error") = (answered[i].how = "raise")
          /\ tool_results[i].status \in {"error", "success"}
          /\ answered[i].how = "raise" =>
                 tool_results[i].content = Content("Error: ", answered[i].value)

(* C21: the content of every successful result is the value the backend
   returned, itself when it is a string and its JSON encoding when it is
   anything else. *)
C21_SuccessContent ==
    \A i \in 1..Len(tool_results) :
        tool_results[i].status = "success" =>
            /\ answered[i].how = "return"
            /\ tool_results[i].content.of = answered[i].value
            /\ tool_results[i].content.form =
                   IF answered[i].value.kind = "str" THEN "str" ELSE "json"

(* one call answered with a string and one with a mapping *)
C21_Witness ==
    /\ Len(tool_results) = 2
    /\ answered[1].value.kind = "str"
    /\ tool_results[1].content = [form |-> "str", of |-> answered[1].value]
    /\ answered[2].value.kind = "dict"
    /\ tool_results[2].content = [form |-> "json", of |-> answered[2].value]

(* C9: a failure of the tool backend is folded into the turn: the i-th call
   having failed, the i-th result has status error, the i-th appended
   message is a role=tool message with the error content and the call's id,
   the exception does not leave run, and the stream goes on being processed
   (the text deltas that follow are appended). *)
C9_ToolFailureFolded ==
    /\ \A i \in 1..Len(answered) :
          answered[i].how = "raise" =>
              /\ i <= Len(tool_results)
              /\ tool_results[i].status = "error"
              /\ tool_results[i].content = Content("Error: ", answered[i].value)
              /\ tool_results[i].tool_call_id = dispatched[i].tool_call_id
              /\ Len(current_messages) >= Len(messages) + i
              /\ LET m == current_messages[Len(messages) + i]
                 IN  /\ m.role = "tool"
                     /\ m.content = Content("Error: ", answered[i].value)
                     /\ m.tool_call_id = dispatched[i].tool_call_id
    /\ raised # "" => (answered # <<>> /\ Last(answered).how = "return")
    /\ (answered # <<>> /\ Last(answered).how = "raise") =>
           /\ pc \in {"streaming", "dispatching", "returned"}
           /\ response_chunks = textSeen

(* an unexpected exception of the backend was folded, and the text delta
   that followed it was processed *)
C9_Witness ==
    /\ Len(answered) = 1
    /\ answered[1].value.kind = "RuntimeError"
    /\ tool_results[1].status = "error"
    /\ event.type = "TEXT_MESSAGE_CONTENT"
    /\ nEvents = 3
    /\ response_chunks = <<event.delta>>

(* C10: reassembly. The arguments handed to the dispatcher at tool-call-end
   are those the same argument text gives when it arrives as one fragment,
   however the stream split it. *)
C10_Reassembly ==
    /\ Len(callText) = Len(dispatched)
    /\ \A i \in 1..Len(dispatched) :
          dispatched[i].tool_args =
              get_args([tool_call_id |-> dispatched[i].tool_call_id,
                        tool_name |-> dispatched[i].tool_name,
                        args_chunks |-> <<callText[i]>>])

(* a call whose argument text {"k":1} came in two fragments was dispatched
   with the mapping it denotes *)
C10_Witness ==
    /\ Len(dispatched) = 1
    /\ callText[1] = <<"{", "\"k\":1}">>
    /\ dispatched[1].tool_args = Value("dict", "k")

----------------------------------------------------------------------------
(* Properties of the processing of tool-call events *)

(* C11: order. The entries of the tool-result list and the role=tool
   messages appended to the history stand in the order in which the
   tool-call-end events of their calls were streamed, whatever the order of
   the start and args events of these calls. *)
C11_EndOrder ==
    /\ Len(tool_results) <= Len(endSeen)
    /\ Len(current_messages) = Len(messages) + Len(tool_results)
    /\ \A i \in 1..Len(tool_results) :
          /\ tool_results[i].tool_call_id = endSeen[i]
          /\ current_messages[Len(messages) + i].role = "tool"
          /\ current_messages[Len(messages) + i].tool_call_id = endSeen[i]

(* two calls were started one after the other, both before either ended,
   and ended in the opposite order *)
C11_Witness ==
    /\ nEvents = 4
    /\ endSeen = <<"tc-2", "tc-1">>
    /\ Len(tool_results) = 2
    /\ tool_results[1].tool_call_id = "tc-2"
    /\ current_messages[Len(messages) + 2].tool_call_id = "tc-1"

(* C12: a tool-call-args or tool-call-end event whose id is not tracked
   when it is processed changes neither the response buffer, the pending
   set, the result list nor the history, and dispatches nothing; the
   pending set being unchanged, the fragment is kept nowhere. *)
C12_UntrackedDropped ==
    [][ ( /\ pc = "streaming"
          /\ nEvents' = nEvents + 1
          /\ event'.type \in {"TOOL_CALL_ARGS", "TOOL_CALL_END"}
          /\ event'.tool_call_id \notin DOMAIN pending )
        => ( /\ UNCHANGED <<response_chunks, pending, tool_results,
                            current_messages, dispatched, inflight>>
             /\ pc' = "streaming" ) ]_vars

(* a fragment for an id that is not tracked was processed while another
   call was being tracked and text had been streamed *)
C12_Witness ==
    /\ pc = "streaming"
    /\ event.type = "TOOL_CALL_ARGS"
    /\ event.tool_call_id \notin DOMAIN pending
    /\ DOMAIN pending # {}
    /\ response_chunks # <<>>
    /\ dispatched = <<>>

(* C13: every tool-call-end for a tracked id has dispatched its call once,
   with the id and the arguments reassembled from its fragments; once the
   dispatch is over, the result is in the result list and one role=tool
   message with the result's content and the id is in the history; the id
   has left the pending set, so that a second tool-call-end for it
   dispatches nothing. *)
C13_TrackedEndDispatchesOnce ==
    /\ Len(dispatched) = Len(endSeen)
    /\ \A i \in 1..Len(dispatched) :
          /\ dispatched[i].tool_call_id = endSeen[i]
          /\ dispatched[i].tool_name \in Names
          /\ dispatched[i].tool_args =
                 get_args([tool_call_id |-> endSeen[i],
                           tool_name |-> dispatched[i].tool_name,
                           args_chunks |-> <<callText[i]>>])
          /\ endSeen[i] \in DOMAIN pending => endSeen[i] \in DOMAIN argText
    /\ Len(tool_results) =
           IF pc = "dispatching" THEN Len(dispatched) - 1 ELSE Len(dispatched)
    /\ Len(current_messages) = Len(messages) + Len(tool_results)
    /\ \A i \in 1..Len(tool_results) :
          /\ tool_results[i].tool_call_id = endSeen[i]
          /\ current_messages[Len(messages) + i].role = "tool"
          /\ current_messages[Len(messages) + i].content =
                 tool_results[i].content
          /\ current_messages[Len(messages) + i].tool_call_id = endSeen[i]

(* C16: no overlap. At most one dispatched call is unanswered; while it
   is, the last event processed is the tool-call-end that dispatched it; and
   whenever the stream is being read, every dispatched call has its result
   in the result list. *)
C16_DispatchAwaited ==
    /\ Len(answered) <= Len(dispatched)
    /\ Len(dispatched) <= Len(answered) + 1
    /\ (pc = "dispatching") = (Len(dispatched) = Len(answered) + 1)
    /\ pc = "dispatching" =>
           /\ event.type = "TOOL_CALL_END"
           /\ event.tool_call_id = dispatched[Len(dispatched)].tool_call_id
           /\ inflight = dispatched[Len(dispatched)]
           /\ Len(tool_results) = Len(dispatched) - 1
    /\ pc = "streaming" => Len(tool_results) = Len(dispatched)

(* the second call of a run is in flight, the first one answered and its
   result recorded *)
C16_Witness ==
    /\ pc = "dispatching"
    /\ Len(dispatched) = 2
    /\ Len(answered) = 1
    /\ Len(tool_results) = 1
    /\ nEvents = 4

(* C20: every completed call is dispatched whatever its argument text; a
   call whose joined fragments are not JSON, and a call with no fragment,
   is dispatched with the empty mapping, and the failure to parse does not
   leave run. *)
C20_BadArgsEmptyMapping ==
    /\ Len(dispatched) = Len(callText)
    /\ \A i \in 1..Len(callText) :
          (callText[i] = <<>> \/ ~json_loads(callText[i]).ok)
              => dispatched[i].tool_args = [kind |-> "dict", data |-> ""]
    /\ raised # "JSONDecodeError"

(* a call whose argument text was  }  was dispatched with the empty
   mapping and answered, and the text delta after it was processed *)
C20_Witness ==
    /\ Len(dispatched) = 1
    /\ callText[1] = <<"}">>
    /\ dispatched[1].tool_args = [kind |-> "dict", data |-> ""]
    /\ Len(tool_results) = 1
    /\ nEvents = 4
    /\ event.type = "TEXT_MESSAGE_CONTENT"
    /\ response_chunks = <<event.delta>>

(* C25: a run-error event ends the turn. After one has been processed the
   stream is read no further: no text is appended, no pending call is
   changed, nothing is dispatched. *)
C25_RunErrorTerminal ==
    [][ (pc = "streaming" /\ event.type = "RUN_ERROR")
        => ( /\ UNCHANGED <<response_chunks, pending, dispatched, nEvents>>
             /\ pc' = "returned" ) ]_vars

(* C26: observational events. Processing a run-started, run-finished,
   step-started, step-finished, text-message-start, text-message-end,
   tool-call-result, state-snapshot or state-delta event leaves the response
   buffer, the pending calls, the tool results and the message history as
   they were and dispatches nothing; the stream goes on being read. *)
C26_ObservationalOnly ==
    [][ (nEvents' = nEvents + 1 /\ event'.type \in ObservationalTypes)
        => ( /\ UNCHANGED <<response_chunks, pending, tool_results,
                            current_messages, dispatched, inflight>>
             /\ pc' = pc ) ]_vars

(* a tool-call-result naming a tracked call was processed, and the call is
   still pending and undispatched *)
C26_Witness ==
    /\ event.type = "TOOL_CALL_RESULT"
    /\ event.tool_call_id \in DOMAIN pending
    /\ pc = "streaming"
    /\ dispatched = <<>>
    /\ response_chunks # <<>>

(* C27: the accumulator of the decoder is empty after every blank line,
   whether the blank line emitted an event or not, and at any time holds
   only what the lines read since the last blank line put there: the label
   of the last event line and the fragments of the data lines. *)
C27_AccumulatorOfFrameOnly ==
    /\ sse.frame = <<>> => (sse.event_type = Absent /\ sse.data_lines = <<>>)
    /\ sse.data_lines = FrameData(sse.frame)
    /\ sse.event_type =
           IF FrameLabels(sse.frame) = <<>> THEN Absent
           ELSE FrameLabels(sse.frame)[Len(FrameLabels(sse.frame))].text

(* a frame with an unknown label and data was ended by a blank line that
   emitted nothing, a well-formed frame by one that emitted its event, and
   the accumulator is empty *)
C27_Witness ==
    /\ <<"label", 0>> \in sse.dropped
    /\ Len(sse.emitted) = 1
    /\ sse.frame = <<>>
    /\ sse.event_type = Absent
    /\ sse.data_lines = <<>>

(* C28: the decoder emits only at a blank line, at most one event per blank
   line, and only if an event line and a data line were read since the
   blank line before; a frame with a label and no data, or data and no
   label, emits nothing. *)
C28_EmitsAtBlankLine ==
    [][ sse'.emitted # sse.emitted
        => ( /\ sse'.nLines = sse.nLines + 1
             /\ sse'.frame = <<>>
             /\ Len(sse'.emitted) = Len(sse.emitted) + 1
             /\ SubSeq(sse'.emitted, 1, Len(sse.emitted)) = sse.emitted
             /\ FrameLabels(sse.frame) # <<>>
             /\ FrameData(sse.frame) # <<>> ) ]_vars

(* a frame of data without a label and a frame of a label without data
   were read and emitted nothing, and a frame with both emitted its event *)
C28_Witness ==
    /\ <<"no-label", 0>> \in sse.dropped
    /\ <<"no-data", 0>> \in sse.dropped
    /\ Len(sse.emitted) = 1
    /\ sse.frame = <<>>

(* C29: incomplete calls are dropped. When the turn has ended, the calls
   that were dispatched are those whose tool-call-end was observed, one
   each; a call that was started and not ended has no dispatch, no
   ToolCallResult in the result and no message in the returned history. *)
C29_IncompleteCallsDropped ==
    pc = "returned" =>
        /\ \A i \in 1..Len(dispatched) : dispatched[i].tool_call_id = endSeen[i]
        /\ Len(dispatched) = Len(endSeen)
        /\ Len(result.tool_results) = Len(endSeen)
        /\ \A i \in 1..Len(result.tool_results) :
              result.tool_results[i].tool_call_id = endSeen[i]
        /\ Len(result.messages) = Len(messages) + Len(endSeen)
        /\ \A i \in 1..Len(endSeen) :
              result.messages[Len(messages) + i].tool_call_id = endSeen[i]

(* the turn ended with one call completed and another started, given an
   argument fragment and not ended; the result holds the completed call
   alone *)
C29_Witness ==
    /\ pc = "returned"
    /\ \E i \in DOMAIN pending : pending[i].args_chunks # <<>>
    /\ DOMAIN pending = DOMAIN argText
    /\ Len(endSeen) = 1
    /\ Len(result.tool_results) = 1

(* C30: the pending calls are shared by the invocations of run on one
   client. As long as no invocation was started while another was reading
   its stream, every tool-call-end of a started call dispatches the call
   its own stream started; it takes overlapping invocations to lose a call
   or to resolve one into the other invocation's results. *)
C30_OnlyOverlapLosesCalls ==
    ~duo.overlapped =>
        \A r \in DuoRuns :
            /\ duo.lost[r] = {}
            /\ \A i \in 1..Len(duo.results[r]) :
                  duo.results[r][i].tool_name = DuoName(r)

(* two overlapping invocations: a call of invocation 1 was cleared by the
   reset of invocation 2 and its tool-call-end dispatched nothing, and
   invocation 2 holds the result of a call that invocation 1 started *)
C30_Witness ==
    /\ duo.overlapped
    /\ \E id \in duo.lost[1] :
          \A i \in 1..Len(duo.results[2]) :
              duo.results[2][i].tool_call_id # id
    /\ \E i \in 1..Len(duo.results[2]) :
          duo.results[2][i].tool_name = DuoName(1)

(* C32: every message of the history of a run, the role=tool messages
   appended during the turn included, has a role, a content and an id, and
   a role=tool message has a tool_call_id as well. *)
C32_MessagesHaveId ==
    \A i \in 1..Len(current_messages) :
        /\ current_messages[i].role # Absent
        /\ current_messages[i].id # Absent
        /\ current_messages[i].role = "tool"
              => current_messages[i].tool_call_id # Absent

(* C34: lockstep. The role=tool messages appended to the history during a
   run are as many as the tool results, and the i-th of them has the
   tool_call_id and the content of the i-th result. *)
C34_ResultsAndMessagesInLockstep ==
    /\ Len(current_messages) = Len(messages) + Len(tool_results)
    /\ SubSeq(current_messages, 1, Len(messages)) = messages
    /\ \A i \in 1..Len(tool_results) :
          /\ current_messages[Len(messages) + i].role = "tool"
          /\ current_messages[Len(messages) + i].tool_call_id =
                 tool_results[i].tool_call_id
          /\ current_messages[Len(messages) + i].content =
                 tool_results[i].content

(* two calls of different ids were answered, the first with an error and
   the second with a value, after a user message *)
C34_Witness ==
    /\ Len(messages) = 1
    /\ Len(tool_results) = 2
    /\ tool_results[1].tool_call_id # tool_results[2].tool_call_id
    /\ tool_results[1].status = "error"
    /\ tool_results[2].status = "success"
    /\ pc = "streaming"

(* C35: the arguments handed to the tool dispatcher are a mapping whatever
   the joined fragments are: empty, not JSON, a JSON object, or JSON that
   is no object. *)
C35_ArgsAreMapping ==
    \A i \in 1..Len(dispatched) : dispatched[i].tool_args.kind = "dict"

(* C36: a frame that no blank line ends before the body ends is never
   emitted. The end of the body emits nothing, and what the decoder has
   emitted for a body is the events of the frames up to its last blank
   line. *)
C36_UnterminatedFrameDropped ==
    [][ sse'.closed
        => ( /\ sse'.emitted = sse.emitted
             /\ sse'.emitted = sse'.expected ) ]_vars

(* the body ended after a well-formed frame and, behind it, an event line
   and a data line of a second well-formed frame that no blank line ended;
   the event of the first frame is all that was emitted *)
C36_Witness ==
    /\ sse.closed
    /\ FrameDefect(sse.frame) = ""
    /\ Len(sse.emitted) = 1
    /\ sse.event_type \in SseKnownLabels
    /\ sse.data_lines # <<>>

(* C33: one pending call per id, and the latest start wins. The entry of
   an id holds the fragments the stream sent for it since its latest
   tool-call-start and nothing older; right after a tool-call-start the
   entry of its id has the name of that start and no fragment; a dispatched
   call has the arguments parsed from the fragments sent since the latest
   start of its id. *)
C33_LatestStartWins ==
    /\ \A id \in DOMAIN pending :
          /\ pending[id].tool_call_id = id
          /\ id \in DOMAIN argText => Join(pending[id].args_chunks) = argText[id]
    /\ event.type = "TOOL_CALL_START" =>
          /\ event.tool_call_id \in DOMAIN pending
          /\ pending[event.tool_call_id].tool_name = event.tool_call_name
          /\ pending[event.tool_call_id].args_chunks = <<>>
    /\ \A i \in 1..Len(dispatched) :
          dispatched[i].tool_args =
              get_args([tool_call_id |-> dispatched[i].tool_call_id,
                        tool_name |-> dispatched[i].tool_name,
                        args_chunks |-> <<callText[i]>>])

(* a call was started, given the fragment  null , started again under the
   same id and ended at once: it was dispatched with the empty mapping, the
   fragment of before the second start being gone *)
C33_Witness ==
    /\ restarted # {}
    /\ Len(dispatched) = 1
    /\ dispatched[1].tool_call_id \in restarted
    /\ callText = << <<>> >>
    /\ dispatched[1].tool_args = EmptyDict
    /\ pc = "dispatching"

(* C31: the conversation entity never has two invocations of run in flight
   on its client: of its turns, at most one is awaiting run at any time. *)
C31_OneRunInFlight ==
    Cardinality({t \in ConvTurns : conv.turn[t].pc = "running"}) <= 1

(* C37: a turn that succeeds with response text leaves, as the history of
   its conversation id, what was there before, the user message of the
   turn, the tool-result messages of the turn and then an assistant message
   with the response text. Stated of a turn that no other turn ran beside. *)
C37_AssistantReplyStored ==
    \A t \in ConvTurns :
        ( /\ conv.turn[t].pc = "done"
          /\ conv.turn[t].response # <<>>
          /\ conv.turn[ConvOther(t)].pc = "idle" )
        => LET cid == conv.turn[t].cid
               old == IF cid \in DOMAIN conv.turn[t].before
                      THEN conv.turn[t].before[cid] ELSE <<>>
               toolMessages ==
                   [k \in 1..Len(conv.turn[t].tools) |->
                       ToolResultMessage(conv.turn[t].tools[k])]
           IN  Stored(conv)[cid] =
                   old \o <<UserMessage>> \o toolMessages
                       \o <<AssistantMessage(conv.turn[t].response)>>

(* C38: a turn that ends in an error response leaves the history of every
   conversation id as it was when the turn began. Stated of a turn that no
   other turn ran beside. *)
C38_ErrorLeavesHistory ==
    \A t \in ConvTurns :
        ( /\ conv.turn[t].pc = "error"
          /\ conv.turn[ConvOther(t)].pc = "idle" )
        => Stored(conv) = conv.turn[t].before

(* C15: defensive reset. A run starts with an empty pending set whatever
   the run before it left there, so every id that is tracked, and every
   call that is dispatched, was started by a tool-call-start of this run. *)
C15_DefensiveReset ==
    /\ pc = "connecting" => DOMAIN pending = {}
    /\ DOMAIN pending \subseteq DOMAIN argText
    /\ Len(dispatched) = Len(endSeen)
    /\ \A i \in 1..Len(dispatched) : dispatched[i].tool_call_id = endSeen[i]

(* the run before left a call pending; the first event of this run is the
   tool-call-end of that id, and it dispatched nothing *)
C15_Witness ==
    /\ pc = "streaming"
    /\ nEvents = 1
    /\ event.type = "TOOL_CALL_END"
    /\ event.tool_call_id \in leftBehind
    /\ dispatched = <<>>
    /\ DOMAIN pending = {}

----------------------------------------------------------------------------
(* Properties of what run returns *)

(* C17: the list the caller passed to run is, at every point of the run and
   after it, the list the request was built from; the messages of the
   returned result are that list followed by one role=tool message per tool
   result, in order, and nothing else. *)
C17_HistoryReturned ==
    /\ pc \in {"connecting", "streaming", "dispatching", "returned", "raised"}
           => /\ messages \in InputMessages
              /\ requests = << _convert_to_agui_messages(messages) >>
    /\ pc = "returned" =>
           /\ Len(result.messages) = Len(messages) + Len(tool_results)
           /\ \A i \in 1..Len(messages) : result.messages[i] = messages[i]
           /\ \A i \in 1..Len(tool_results) :
                  result.messages[Len(messages) + i] =
                      [role |-> "tool", content |-> tool_results[i].content,
                       id |-> Absent,
                       tool_call_id |-> tool_results[i].tool_call_id]

(* a run over a history of one message returned after a tool call and some
   text: two messages, the second the tool message *)
C17_Witness ==
    /\ pc = "returned"
    /\ Len(messages) = 1
    /\ Len(tool_results) = 1
    /\ result.response_text # <<>>
    /\ Len(result.messages) = 2
    /\ result.messages[2].role = "tool"

(* C18: the response buffer holds the deltas of the text-message-content
   events processed, in their order, and nothing from any other event; the
   response text run returns is their concatenation. *)
C18_ResponseText ==
    /\ Len(response_chunks) = Len(textSeen)
    /\ \A i \in 1..Len(textSeen) : response_chunks[i] = textSeen[i]
    /\ Len(textSeen) <= nEvents
    /\ pc = "returned" =>
           result.response_text = Join(textSeen)

(* text, a tool call, and text again: the run returned both deltas, joined,
   and the events of the call added nothing *)
C18_Witness ==
    /\ pc = "returned"
    /\ nEvents = 4
    /\ Len(textSeen) = 2
    /\ textSeen[1] # textSeen[2]
    /\ Len(tool_results) = 1
    /\ result.response_text = textSeen[1] \o textSeen[2]

(* C22: run terminates. When every stream is finite and every dispatch
   comes back, a run that has posted its request eventually returns, unless
   a dispatch raised instead of returning. *)
C22_RunTerminates ==
    (pc = "connecting") ~> (pc = "returned" \/ raised # "")

(* a run whose stream was tool calls from its first event to its last
   returned *)
C22_Witness ==
    /\ pc = "returned"
    /\ nEvents = 4
    /\ toolsInPass = 2
    /\ textSeen = <<>>
    /\ Len(result.tool_results) = 2

----------------------------------------------------------------------------
(* Properties of the request *)

(* C23: the messages of the request are the messages of the history whose
   role is system, user, assistant or tool, in the order of the history,
   each with its role and content, and a tool message with the
   tool_call_id it has. *)
C23_ConvertKeepsOrder ==
    pc = "connecting" =>
        LET kept == SelectSeq(messages, LAMBDA m :
                        m.role \in {"system", "user", "assistant", "tool"})
            out == requests[1]
        IN  /\ Len(out) = Len(kept)
            /\ \A i \in 1..Len(kept) :
                  /\ out[i].role = kept[i].role
                  /\ out[i].content = kept[i].content
                  /\ (kept[i].role = "tool" /\ kept[i].tool_call_id # Absent)
                         => out[i].toolCallId = kept[i].tool_call_id

(* a history of a user message, a message of an unknown role and a tool
   message gave a request of the user message and the tool message *)
C23_Witness ==
    /\ pc = "connecting"
    /\ Len(messages) = 3
    /\ messages[1].role = "user"
    /\ messages[2].role = "function"
    /\ messages[3].role = "tool"
    /\ Len(requests[1]) = 2
    /\ requests[1][1].role = "user"
    /\ requests[1][2].toolCallId = "tc-1"

(* C19: a client can be constructed with or without a bearer token, and
   every request it posts carries Content-Type: application/json and
   Accept: text/event-stream, and carries Authorization: Bearer <token>
   exactly when the client was constructed with a token. *)
C19_RequestHeaders ==
    /\ pc # "no_client"
    /\ requests # <<>> =>
           /\ <<"Content-Type", "application/json">> \in headers
           /\ <<"Accept", "text/event-stream">> \in headers
           /\ \A h \in headers :
                  h[1] = "Authorization" =>
                      /\ bearer_token \notin {Absent, "None"}
                      /\ h[2] = <<"Bearer ", bearer_token>>
           /\ bearer_token \notin {Absent, "None"} =>
                  <<"Authorization", <<"Bearer ", bearer_token>>>> \in headers

----------------------------------------------------------------------------
(* Properties of the SSE decoder *)

(* C14: bad frames never abort decoding. A frame whose data is not JSON,
   whose label is no event type, or whose payload fails validation for the
   type of its label yields no event, and what the decoder has emitted is
   the sequence of the events of the well-formed frames read so far, in
   their order; the decoder stops early only on a line that is not UTF-8. *)
C14_BadFramesDropped ==
    /\ sse.emitted = sse.expected
    /\ sse.raised # "" =>
           /\ sse.frame # <<>>
           /\ sse.frame[Len(sse.frame)].kind = "undecodable"

(* a frame whose label is an event type and whose data is not JSON came
   first, a well-formed frame after it, and the event of the latter is all
   that was emitted *)
C14_Witness ==
    /\ <<"json", 0>> \in sse.dropped
    /\ Len(sse.emitted) = 1
    /\ sse.emitted[1].type = "RUN_FINISHED"
    /\ sse.frame = <<>>
    /\ sse.data_lines = <<>>

----------------------------------------------------------------------------
(* Properties of the config flow *)

(* C24: an entry is created only for an endpoint that, its trailing
   slashes stripped, starts with http:// or https://, and after a
   connectivity test that raised nothing. A submission that fails either
   condition shows the form again with exactly one of the error codes
   invalid_url, cannot_connect, unknown and creates no entry; for an
   endpoint that is not a URL the connectivity test is not invoked. *)
C24_EntryOnlyWhenValid ==
    flow.input # <<>> =>
        LET endpoint == rstrip_slash(flow.input[1].agui_endpoint)
            valid == startswith_http(endpoint)
            passed == /\ Len(flow.tests) = 1
                      /\ flow.tests[1].outcome = "ok"
        IN  /\ flow.step = "entry" =>
                   /\ valid
                   /\ passed
                   /\ flow.data[1].agui_endpoint = endpoint
            /\ ~(valid /\ passed) =>
                   /\ flow.step = "form"
                   /\ flow.data = <<>>
                   /\ Cardinality(flow.errors) = 1
                   /\ flow.errors \subseteq
                          {"invalid_url", "cannot_connect", "unknown"}
            /\ ~valid => (flow.tests = <<>> /\ flow.errors = {"invalid_url"})
            /\ Len(flow.tests) <= 1

(* an endpoint with two trailing slashes was tested without them and the
   entry created for it *)
C24_Witness ==
    /\ flow.step = "entry"
    /\ flow.input[1].agui_endpoint = <<"http://", "host", "/", "/">>
    /\ flow.data[1].agui_endpoint = <<"http://", "host">>
    /\ flow.tests[1].endpoint = <<"http://", "host">>

====
